---- MODULE Spec2Model ----
(***************************************************************************)
(* Model of display_switcher.py: the report parser, the per-display mode   *)
(* cursors, the viewports, the curses event loop and the commit            *)
(* (apply_mode) that hands one instruction per display to displayplacer.   *)
(*                                                                         *)
(* Indices (current_display_index, mode cursors, viewport offsets) are     *)
(* 0-based as in the program; TLA+ sequences are 1-based, so element i of  *)
(* a Python list l is l[i + 1] here.  Python's None is the empty sequence  *)
(* and a present value v is <<v>>.  A resolution string "WxH" is the pair  *)
(* <<W, H>>.                                                               *)
(*                                                                         *)
(* One step of the model runs from one blocking getch() to the next: the   *)
(* handler of the key that was read, followed by the render pass at the    *)
(* top of the next iteration of the `while True` loop.                     *)
(***************************************************************************)
EXTENDS Integers, Sequences, FiniteSets, TLC

VARIABLES
    pc,                     \* "main" | "loop" | "wait_key" | "exited"
    tty,                    \* sys.stdin.isatty()
    list_outcome,           \* how `displayplacer list` ends: "ok" | "failed" | "missing"
    report,                 \* stdout of `displayplacer list`, as blocks
    displays,               \* self.displays
    current_display_index,  \* self.current_display_index
    current_mode_indices,   \* self.current_mode_indices (dict keyed by persistent id)
    status_message,         \* self.status_message
    status_timeout,         \* self.status_timeout
    display_viewport,       \* self.display_viewport
    mode_viewports,         \* self.mode_viewports (dict keyed by persistent id)
    key,                    \* the key returned by the last getch() of the loop
    request,                \* <<cmd_args>> handed to subprocess.run by the last key, <<>> if none
    outcome,                \* how that subprocess.run ended: "none" | "ok" | "failed" | "missing"
    screen,                 \* text written by run() outside the loop
    exit_code,              \* <<status>> once the process has ended
    vp,                     \* <<a Viewport>> exercised on its own, <<>> while the process is modelled
    vp_call,                \* <<(total_items, current_index)>> of its last update since a resize
    vp_first                \* <<the Viewport before the last update>> when that update
                            \* repeated the arguments of the one before

vars == <<pc, tty, list_outcome, report, displays, current_display_index,
          current_mode_indices, status_message, status_timeout,
          display_viewport, mode_viewports, key, request, outcome, screen,
          exit_code, vp, vp_call, vp_first>>

Min(a, b) == IF a <= b THEN a ELSE b
Max(a, b) == IF a >= b THEN a ELSE b

(***************************************************************************)
(* Bounds of the model.                                                    *)
(***************************************************************************)
\* number of mode lines of the long report
LongLen == 8
\* terminal heights getmaxyx() returns: the tall one gives a mode viewport
\* of 12 rows for one display, the short one the minimum of 3 rows
ShortTerm == 5
TallTerm == 26
Heights == {ShortTerm, TallTerm}
\* how far past the end of a mode list a mode cursor is followed (with two
\* displays that share a persistent id next-mode can count upwards without end)
MaxOver == 2
\* Viewport on its own: largest max_height and largest total_items
MaxViewHeight == 4
MaxItems == 6

(***************************************************************************)
(* Reports.  A report is the sequence of blocks output.split('\n\n')       *)
(* yields.  A block records whether it contains 'Persistent screen id:',   *)
(* the values of its scalar lines, and its remaining lines in order: the   *)
(* 'Resolutions for rotation' marker, lines that start with 'mode ' (which *)
(* may or may not match the mode pattern) and other lines.                 *)
(***************************************************************************)
ModeLine(n, res, hz, sc, cur) ==
    [kind |-> "mode", matches |-> TRUE, mode_num |-> n, resolution |-> res,
     hertz |-> hz, color_depth |-> 8, scaling |-> sc, is_current |-> cur]

BadModeLine ==
    [kind |-> "mode", matches |-> FALSE, mode_num |-> 0, resolution |-> <<0, 0>>,
     hertz |-> 0, color_depth |-> 0, scaling |-> FALSE, is_current |-> FALSE]

Marker ==
    [kind |-> "marker", matches |-> FALSE, mode_num |-> 0, resolution |-> <<0, 0>>,
     hertz |-> 0, color_depth |-> 0, scaling |-> FALSE, is_current |-> FALSE]

Block(pid, ctx, res, hz, org, ls) ==
    [qualifies |-> TRUE, persistent_id |-> pid, contextual_id |-> ctx,
     serial_id |-> "s", display_type |-> "external", resolution |-> res,
     hertz |-> hz, origin |-> org, lines |-> ls]

\* a block without 'Persistent screen id:' (the usage text the tool prints last)
Trailer ==
    [qualifies |-> FALSE, persistent_id |-> "", contextual_id |-> "",
     serial_id |-> "", display_type |-> "", resolution |-> <<0, 0>>,
     hertz |-> 0, origin |-> <<0, 0>>, lines |-> <<>>]

\* one display, LongLen mode lines in an order that is not the sorted one
LongLines ==
    [i \in 1..LongLen |->
        ModeLine(i, <<800 + 100 * ((3 * i) % 5), 600>>, 60 + 15 * (i % 2),
                 i % 3 = 0, i = 2)]

ReportLong == <<Block("A", "1", <<1000, 600>>, 60, <<0, 0>>, <<Marker>> \o LongLines), Trailer>>

\* two displays; the first has the three modes of the sorting scenario, a
\* mode line ahead of the marker and one that does not match the pattern
ReportTwo ==
    <<Block("A", "1", <<2560, 1440>>, 60, <<0, 0>>,
            <<ModeLine(9, <<640, 480>>, 60, FALSE, FALSE), Marker,
              ModeLine(0, <<1920, 1080>>, 60, FALSE, FALSE),
              ModeLine(1, <<2560, 1440>>, 60, FALSE, TRUE),
              BadModeLine,
              ModeLine(2, <<1280, 720>>, 60, TRUE, FALSE)>>),
      Block("B", "2", <<1024, 768>>, 75, <<2560, 0>>,
            <<Marker,
              ModeLine(4, <<1024, 768>>, 60, FALSE, FALSE),
              ModeLine(7, <<1024, 768>>, 75, FALSE, TRUE)>>),
      Trailer>>

\* the same block twice: two displays equal in every field
TwinBlock ==
    Block("A", "1", <<1024, 768>>, 60, <<0, 0>>,
          <<Marker,
            ModeLine(0, <<1024, 768>>, 60, FALSE, TRUE),
            ModeLine(1, <<800, 600>>, 60, FALSE, FALSE)>>)

ReportTwins == <<TwinBlock, TwinBlock>>

\* two displays that share a persistent id and differ in their mode lists
ReportSameId ==
    <<Block("A", "1", <<1024, 768>>, 60, <<0, 0>>,
            <<Marker,
              ModeLine(0, <<1024, 768>>, 60, FALSE, TRUE),
              ModeLine(1, <<800, 600>>, 60, FALSE, FALSE),
              ModeLine(2, <<640, 480>>, 60, FALSE, FALSE)>>),
      Block("A", "2", <<800, 600>>, 60, <<1024, 0>>,
            <<Marker, ModeLine(5, <<800, 600>>, 60, FALSE, TRUE)>>)>>

\* two displays with different ids: two modes and one mode
ReportPair ==
    <<Block("A", "1", <<1024, 768>>, 60, <<0, 0>>,
            <<Marker,
              ModeLine(3, <<800, 600>>, 75, FALSE, FALSE),
              ModeLine(4, <<1024, 768>>, 60, FALSE, TRUE)>>),
      Block("B", "2", <<800, 600>>, 60, <<1024, 0>>,
            <<Marker, ModeLine(6, <<800, 600>>, 60, FALSE, TRUE)>>),
      Trailer>>

\* one display without a mode line
ReportBare == <<Block("C", "3", <<640, 480>>, 60, <<0, 0>>, <<>>)>>

\* three displays with two, one and no modes; the second has no current mode
ReportThree ==
    <<Block("A", "1", <<1024, 768>>, 60, <<0, 0>>,
            <<Marker,
              ModeLine(3, <<800, 600>>, 60, FALSE, FALSE),
              ModeLine(4, <<1024, 768>>, 60, FALSE, TRUE)>>),
      Block("B", "2", <<800, 600>>, 60, <<1024, 0>>,
            <<Marker, ModeLine(6, <<800, 600>>, 60, FALSE, FALSE)>>),
      Block("C", "3", <<640, 480>>, 60, <<0, 768>>, <<>>)>>

\* no block with a persistent id
ReportNone == <<Trailer>>

\* one display whose mode lines repeat an ordinal
ReportRepeat ==
    <<Block("D", "4", <<1024, 768>>, 60, <<0, 0>>,
            <<Marker,
              ModeLine(0, <<1024, 768>>, 60, FALSE, TRUE),
              ModeLine(0, <<800, 600>>, 60, FALSE, FALSE)>>)>>

\* the reports of Spec (every key) and of SpecNav (every key but Enter)
Reports == {ReportTwins, ReportPair, ReportSameId, ReportBare, ReportNone}
NavReports == {ReportLong, ReportTwo, ReportSameId, ReportThree, ReportRepeat, ReportNone}

(***************************************************************************)
(* DisplayMode, Display                                                    *)
(***************************************************************************)
DisplayMode(mode_num, resolution, hertz, color_depth, scaling) ==
    [mode_num |-> mode_num, resolution |-> resolution, hertz |-> hertz,
     color_depth |-> color_depth, scaling |-> scaling]

width(m) == m.resolution[1]

\* a sort key without the high-density flag
SortKey_NoScaling(m) == <<0, 0 - width(m), 0 - m.hertz>>

\* the sort key (not m.scaling, -m.width, -m.hertz), False < True
SortKey(m) == <<IF m.scaling THEN 0 ELSE 1, 0 - width(m), 0 - m.hertz>>

\* tuple comparison a <= b as Python compares tuples
KeyLeq(a, b) ==
    \/ a[1] < b[1]
    \/ a[1] = b[1] /\ a[2] < b[2]
    \/ a[1] = b[1] /\ a[2] = b[2] /\ a[3] <= b[3]

\* list.sort is stable: m goes behind every element whose key is <= its own
RECURSIVE InsertStable(_, _)
InsertStable(sorted, m) ==
    IF sorted = <<>> THEN <<m>>
    ELSE IF KeyLeq(SortKey(Head(sorted)), SortKey(m))
         THEN <<Head(sorted)>> \o InsertStable(Tail(sorted), m)
         ELSE <<m>> \o sorted

RECURSIVE SortModes(_)
SortModes(ms) ==
    IF ms = <<>> THEN <<>>
    ELSE InsertStable(SortModes(SubSeq(ms, 1, Len(ms) - 1)), ms[Len(ms)])

\* the second loop over the lines of a block: d is the Display so far,
\* in_modes_section the flag, i the next line
RECURSIVE ParseModes(_, _, _, _)
ParseModes(d, ls, in_modes_section, i) ==
    IF i > Len(ls) THEN d
    ELSE LET line == ls[i] IN
         IF line.kind = "marker" THEN ParseModes(d, ls, TRUE, i + 1)
         ELSE IF in_modes_section /\ line.kind = "mode" /\ line.matches
              THEN LET mode == DisplayMode(line.mode_num, line.resolution, line.hertz,
                                           line.color_depth, line.scaling)
                       d1 == [d EXCEPT !.modes = Append(@, mode)]
                       d2 == IF line.is_current
                             THEN [d1 EXCEPT !.current_mode = line.mode_num]
                             ELSE d1
                   IN ParseModes(d2, ls, in_modes_section, i + 1)
              ELSE ParseModes(d, ls, in_modes_section, i + 1)

ParseBlock(b) ==
    LET display == [persistent_id |-> b.persistent_id,
                    contextual_id |-> b.contextual_id,
                    serial_id |-> b.serial_id,
                    display_type |-> b.display_type,
                    current_resolution |-> b.resolution,
                    current_hertz |-> b.hertz,
                    origin |-> b.origin,
                    current_mode |-> -1,
                    modes |-> <<>>]
        parsed == ParseModes(display, b.lines, FALSE, 1)
    IN [parsed EXCEPT !.modes = SortModes(@)]

None == <<>>
Some(v) == <<v>>

\* the switcher as __init__ leaves it
NewSwitcher ==
    [displays |-> <<>>, current_display_index |-> 0, current_mode_indices |-> <<>>,
     status_message |-> "", status_timeout |-> 0, display_viewport |-> None,
     mode_viewports |-> <<>>]

\* dict assignment d[k] = v
DictSet(d, k, v) == [x \in (DOMAIN d) \cup {k} |-> IF x = k THEN v ELSE d[x]]

\* dict.get(k, default)
DictGet(d, k, default) == IF k \in DOMAIN d THEN d[k] ELSE default

RECURSIVE parse_displayplacer_output(_, _, _)
parse_displayplacer_output(sw, output, i) ==
    IF i > Len(output) THEN sw
    ELSE IF ~output[i].qualifies THEN parse_displayplacer_output(sw, output, i + 1)
    ELSE LET display == ParseBlock(output[i])
             sw1 == [sw EXCEPT
                       !.displays = Append(@, display),
                       !.current_mode_indices = DictSet(@, display.persistent_id, 0),
                       !.mode_viewports = DictSet(@, display.persistent_id, None)]
         IN parse_displayplacer_output(sw1, output, i + 1)

Parsed(r) == parse_displayplacer_output(NewSwitcher, r, 1)

(***************************************************************************)
(* Viewport                                                                *)
(***************************************************************************)
Viewport(max_height) ==
    [max_height |-> Max(1, max_height), offset |-> 0, current_index |-> 0]

\* an update that does not hold the offset back at the end of the list
ViewportUpdate_NoUpperClamp(v, total_items, current_index) ==
    [v EXCEPT !.current_index = current_index,
              !.offset = Max(0, current_index - (v.max_height \div 2))]

\* an update that centres on the index stored by the previous update
ViewportUpdate_StaleIndex(v, total_items, current_index) ==
    [v EXCEPT !.current_index = current_index,
              !.offset = Max(0, Min(v.current_index - (v.max_height \div 2),
                                    Max(0, total_items - v.max_height)))]

ViewportUpdate(v, total_items, current_index) ==
    LET center_offset == current_index - (v.max_height \div 2)
        max_possible_offset == Max(0, total_items - v.max_height)
    IN [v EXCEPT !.current_index = current_index,
                 !.offset = Max(0, Min(center_offset, max_possible_offset))]

get_visible_range(v, total_items) ==
    <<v.offset, Min(v.offset + v.max_height, total_items)>>

(***************************************************************************)
(* Selection state                                                         *)
(***************************************************************************)
get_current_mode_index(sw) ==
    IF sw.current_display_index < Len(sw.displays)
    THEN DictGet(sw.current_mode_indices,
                 sw.displays[sw.current_display_index + 1].persistent_id, 0)
    ELSE 0

set_current_mode_index(sw, index) ==
    IF sw.current_display_index < Len(sw.displays)
    THEN [sw EXCEPT !.current_mode_indices =
             DictSet(@, sw.displays[sw.current_display_index + 1].persistent_id, index)]
    ELSE sw

(***************************************************************************)
(* One render pass of draw_interface on a terminal of the given height:    *)
(* the rows used above the lists, the two viewport heights, the viewport   *)
(* updates and the status countdown.  Text and attributes are not          *)
(* modelled.                                                               *)
(***************************************************************************)
\* current_line when the viewport sizes are calculated
LinesAboveLists(sw, height) ==
    LET n == Len(sw.displays)
        header == Min(3, Max(0, height))
        l1 == header + 1
        l2 == IF l1 < height - 1 THEN l1 + 1 ELSE l1
        l3 == l2 + Min(Min(n, 2), Max(0, (height - 1) - l2))
        l4 == IF n > 2 /\ l3 < height - 1 THEN l3 + 1 ELSE l3
    IN l4 + 1

remaining_height(sw, height) == height - LinesAboveLists(sw, height) - 4

display_viewport_height(sw, height) ==
    Min(Len(sw.displays), Max(3, remaining_height(sw, height) \div 3))

mode_viewport_height(sw, height) ==
    Max(3, remaining_height(sw, height) - display_viewport_height(sw, height) - 2)

\* a viewport attribute that is None is created, otherwise its max_height is set
Resized(opt, h) == IF opt = None THEN Viewport(h) ELSE [opt[1] EXCEPT !.max_height = h]

\* a countdown that leaves the text in place when it reaches 0
StatusTick_KeepsMessage(sw) ==
    IF sw.status_message # "" /\ sw.status_timeout > 0
    THEN [sw EXCEPT !.status_timeout = @ - 1]
    ELSE sw

StatusTick(sw) ==
    IF sw.status_message # "" /\ sw.status_timeout > 0
    THEN [sw EXCEPT !.status_timeout = @ - 1,
                    !.status_message = IF sw.status_timeout - 1 = 0 THEN "" ELSE @]
    ELSE sw

Render(sw, height) ==
    LET current_display == sw.displays[sw.current_display_index + 1]
        pid == current_display.persistent_id
        dv == ViewportUpdate(Resized(sw.display_viewport, display_viewport_height(sw, height)),
                             Len(sw.displays), sw.current_display_index)
        mv == ViewportUpdate(Resized(DictGet(sw.mode_viewports, pid, None),
                                     mode_viewport_height(sw, height)),
                             Len(current_display.modes), get_current_mode_index(sw))
    IN StatusTick([sw EXCEPT !.display_viewport = Some(dv),
                             !.mode_viewports = DictSet(@, pid, Some(mv))])

\* the mode viewport the render pass bound to the local `mode_viewport`
mode_viewport(sw) ==
    sw.mode_viewports[sw.displays[sw.current_display_index + 1].persistent_id][1]

(***************************************************************************)
(* Key handlers of draw_interface                                          *)
(***************************************************************************)
CurrentDisplay(sw) == sw.displays[sw.current_display_index + 1]

\* previous-display that stops at the first display
OnLeft_NoWrap(sw) ==
    IF Len(sw.displays) > 1
    THEN [sw EXCEPT !.current_display_index = Max(0, @ - 1)]
    ELSE sw

OnLeft(sw) ==
    IF Len(sw.displays) > 1
    THEN [sw EXCEPT !.current_display_index = (@ - 1) % Len(sw.displays)]
    ELSE sw

OnRight(sw) ==
    IF Len(sw.displays) > 1
    THEN [sw EXCEPT !.current_display_index = (@ + 1) % Len(sw.displays)]
    ELSE sw

\* previous-mode that stops at the first mode
OnUp_NoWrap(sw) ==
    IF CurrentDisplay(sw).modes # <<>>
    THEN set_current_mode_index(sw, Max(0, get_current_mode_index(sw) - 1))
    ELSE sw

OnUp(sw) ==
    LET current_display == CurrentDisplay(sw)
        current_idx == get_current_mode_index(sw)
    IN IF current_display.modes # <<>>
       THEN set_current_mode_index(sw,
                IF current_idx = 0 THEN Len(current_display.modes) - 1
                ELSE current_idx - 1)
       ELSE sw

OnDown(sw) ==
    LET current_display == CurrentDisplay(sw)
        current_idx == get_current_mode_index(sw)
    IN IF current_display.modes # <<>>
       THEN set_current_mode_index(sw,
                IF current_idx = Len(current_display.modes) - 1 THEN 0
                ELSE current_idx + 1)
       ELSE sw

\* a jump of half the viewport without the minimum of 5
PageJump_NoMinimum(sw) == mode_viewport(sw).max_height \div 2

PageJump(sw) == Max(5, mode_viewport(sw).max_height \div 2)

OnPageUp(sw) ==
    LET current_display == CurrentDisplay(sw)
        current_idx == get_current_mode_index(sw)
    IN IF current_display.modes # <<>>
       THEN set_current_mode_index(sw, Max(0, current_idx - PageJump(sw)))
       ELSE sw

OnPageDown(sw) ==
    LET current_display == CurrentDisplay(sw)
        current_idx == get_current_mode_index(sw)
    IN IF current_display.modes # <<>>
       THEN set_current_mode_index(sw,
                Min(Len(current_display.modes) - 1, current_idx + PageJump(sw)))
       ELSE sw

\* an if/elif chain that ends in an else with the next-mode handler
OnOther_AsDown(sw) == OnDown(sw)

\* a key none of the branches matches: the chain has no else
OnOther(sw) == sw

(***************************************************************************)
(* apply_mode                                                              *)
(***************************************************************************)
InvalidSelection(sw) == get_current_mode_index(sw) >= Len(CurrentDisplay(sw).modes)

selected_mode(sw) == CurrentDisplay(sw).modes[get_current_mode_index(sw) + 1]

\* `display == current_display` compares the fields of the two dataclasses
IsTarget(display, current_display) == display = current_display

\* cmd_args: one "id:.. mode:.. origin:(x,y) degree:0" per display
cmd_args(sw) ==
    [i \in 1..Len(sw.displays) |->
        LET display == sw.displays[i] IN
        [id |-> display.persistent_id,
         mode |-> IF IsTarget(display, CurrentDisplay(sw))
                  THEN selected_mode(sw).mode_num
                  ELSE display.current_mode,
         origin |-> <<display.origin[1], display.origin[2]>>,
         degree |-> 0]]

\* an out-of-range cursor that returns without a message
InvalidStatus_Silent(sw) == sw

InvalidStatus(sw) ==
    [sw EXCEPT !.status_message = "Error: Invalid mode", !.status_timeout = 30]

\* a try body that also makes the target the primary display
Applied_ResetsOrigin(sw) ==
    [sw EXCEPT !.displays[sw.current_display_index + 1] =
                   [@ EXCEPT !.current_mode = selected_mode(sw).mode_num,
                             !.current_resolution = selected_mode(sw).resolution,
                             !.current_hertz = selected_mode(sw).hertz,
                             !.origin = <<0, 0>>],
               !.status_message = "Applied successfully!",
               !.status_timeout = 30]

\* the assignments of the try body applied to every display that compares
\* equal to the target
Applied_EveryEqual(sw) ==
    [sw EXCEPT !.displays =
                   [j \in 1..Len(sw.displays) |->
                       IF sw.displays[j] = CurrentDisplay(sw)
                       THEN [sw.displays[j] EXCEPT
                                !.current_mode = selected_mode(sw).mode_num,
                                !.current_resolution = selected_mode(sw).resolution,
                                !.current_hertz = selected_mode(sw).hertz]
                       ELSE sw.displays[j]],
               !.status_message = "Applied successfully!",
               !.status_timeout = 30]

\* the try body after subprocess.run returned
Applied(sw) ==
    [sw EXCEPT !.displays[sw.current_display_index + 1] =
                   [@ EXCEPT !.current_mode = selected_mode(sw).mode_num,
                             !.current_resolution = selected_mode(sw).resolution,
                             !.current_hertz = selected_mode(sw).hertz],
               !.status_message = "Applied successfully!",
               !.status_timeout = 30]

\* a failure that takes the highlighted selection back to the first mode
ApplyFailed_ResetsCursor(sw) ==
    [sw EXCEPT !.status_message = "Error: Failed", !.status_timeout = 50,
               !.current_mode_indices = DictSet(@, CurrentDisplay(sw).persistent_id, 0)]

\* the active mode written before subprocess.run and not taken back
ApplyFailed_Optimistic(sw) ==
    [Applied(sw) EXCEPT !.status_message = "Error: Failed", !.status_timeout = 50]

\* except subprocess.CalledProcessError
ApplyFailed(sw) ==
    [sw EXCEPT !.status_message = "Error: Failed", !.status_timeout = 50]

apply_mode(sw, result) ==
    IF InvalidSelection(sw) THEN InvalidStatus(sw)
    ELSE IF result = "ok" THEN Applied(sw)
    ELSE IF result = "failed" THEN ApplyFailed(sw)
    ELSE sw     \* any other exception leaves apply_mode before an assignment

(***************************************************************************)
(* The process                                                             *)
(***************************************************************************)
SW ==
    [displays |-> displays, current_display_index |-> current_display_index,
     current_mode_indices |-> current_mode_indices,
     status_message |-> status_message, status_timeout |-> status_timeout,
     display_viewport |-> display_viewport, mode_viewports |-> mode_viewports]

Set(sw) ==
    /\ displays' = sw.displays
    /\ current_display_index' = sw.current_display_index
    /\ current_mode_indices' = sw.current_mode_indices
    /\ status_message' = sw.status_message
    /\ status_timeout' = sw.status_timeout
    /\ display_viewport' = sw.display_viewport
    /\ mode_viewports' = sw.mode_viewports

env == <<tty, list_outcome, report>>
harness == <<vp, vp_call, vp_first>>

InitWith(reports) ==
    /\ pc = "main"
    /\ tty \in BOOLEAN
    /\ list_outcome \in {"ok", "failed", "missing"}
    /\ report \in reports
    /\ displays = NewSwitcher.displays
    /\ current_display_index = NewSwitcher.current_display_index
    /\ current_mode_indices = NewSwitcher.current_mode_indices
    /\ status_message = NewSwitcher.status_message
    /\ status_timeout = NewSwitcher.status_timeout
    /\ display_viewport = NewSwitcher.display_viewport
    /\ mode_viewports = NewSwitcher.mode_viewports
    /\ key = ""
    /\ request = None
    /\ outcome = "none"
    /\ screen = ""
    /\ exit_code = None
    /\ vp = None
    /\ vp_call = None
    /\ vp_first = None

Init == InitWith(Reports)
InitNav == InitWith(NavReports)

\* main: stdin is not a terminal
NotATerminal ==
    /\ pc = "main" /\ ~tty
    /\ pc' = "exited"
    /\ exit_code' = Some(1)
    /\ UNCHANGED <<env, harness, displays, current_display_index, current_mode_indices,
                   status_message, status_timeout, display_viewport, mode_viewports,
                   key, request, outcome, screen>>

\* a list invocation that only fails when the tool is missing (check=False)
ListRaises_OnlyMissing(result) == result = "missing"

\* run_displayplacer_list: CalledProcessError and FileNotFoundError are
\* raised again as Exception, otherwise stdout is returned
ListRaises(result) == result \in {"failed", "missing"}

\* run: run_displayplacer_list raises, the handler of run writes the error
ListFails ==
    /\ pc = "main" /\ tty /\ ListRaises(list_outcome)
    /\ screen' = "Error"
    /\ pc' = "wait_key"
    /\ UNCHANGED <<env, harness, displays, current_display_index, current_mode_indices,
                   status_message, status_timeout, display_viewport, mode_viewports,
                   key, request, outcome, exit_code>>

\* whether run goes on to draw_interface after parsing
EntersLoop(sw) == sw.displays # <<>>

\* run: the report has no display
NoDisplays ==
    /\ pc = "main" /\ tty /\ ~ListRaises(list_outcome)
    /\ ~EntersLoop(Parsed(report))
    /\ Set(Parsed(report))
    /\ screen' = "No displays found!"
    /\ pc' = "wait_key"
    /\ UNCHANGED <<env, harness, key, request, outcome, exit_code>>

\* run: draw_interface is entered and renders for the first time
EnterLoop ==
    /\ pc = "main" /\ tty /\ ~ListRaises(list_outcome)
    /\ EntersLoop(Parsed(report))
    /\ \E height \in Heights : Set(Render(Parsed(report), height))
    /\ pc' = "loop"
    /\ UNCHANGED <<env, harness, key, request, outcome, screen, exit_code>>

\* the getch() after a message of run: run returns, main ends
WaitKey ==
    /\ pc = "wait_key"
    /\ pc' = "exited"
    /\ exit_code' = Some(0)
    /\ UNCHANGED <<env, harness, displays, current_display_index, current_mode_indices,
                   status_message, status_timeout, display_viewport, mode_viewports,
                   key, request, outcome, screen>>

\* the rest of a loop iteration for a key other than Enter and quit: sw is
\* the switcher its handler leaves, the next render pass follows
Handled(k, sw) ==
    /\ \A i \in 1..Len(sw.displays) :
          sw.current_mode_indices[sw.displays[i].persistent_id]
              < Len(sw.displays[i].modes) + MaxOver
    /\ key' = k
    /\ \E height \in Heights : Set(Render(sw, height))
    /\ request' = None
    /\ outcome' = "none"
    /\ UNCHANGED <<env, harness, pc, screen, exit_code>>

KeyLeft ==
    /\ pc = "loop"
    /\ Handled("KEY_LEFT", OnLeft(SW))

KeyRight ==
    /\ pc = "loop"
    /\ Handled("KEY_RIGHT", OnRight(SW))

KeyUp ==
    /\ pc = "loop"
    /\ Handled("KEY_UP", OnUp(SW))

KeyDown ==
    /\ pc = "loop"
    /\ Handled("KEY_DOWN", OnDown(SW))

KeyPageUp ==
    /\ pc = "loop"
    /\ Handled("KEY_PPAGE", OnPageUp(SW))

KeyPageDown ==
    /\ pc = "loop"
    /\ Handled("KEY_NPAGE", OnPageDown(SW))

\* a key no branch of the if/elif chain matches
KeyOther ==
    /\ pc = "loop"
    /\ Handled("other", OnOther(SW))

\* q, Q or ESC
KeyQuit ==
    /\ pc = "loop"
    /\ key' = "q"
    /\ pc' = "exited"
    /\ exit_code' = Some(0)
    /\ request' = None
    /\ outcome' = "none"
    /\ UNCHANGED <<env, harness, displays, current_display_index, current_mode_indices,
                   status_message, status_timeout, display_viewport, mode_viewports,
                   screen>>

\* what becomes of an exception that leaves apply_mode: TRUE when it also
\* leaves draw_interface and the handler of run writes the error
Propagates(result) == result = "missing"

\* Enter: apply_mode, where subprocess.run returns ("ok"), raises
\* CalledProcessError ("failed") or raises FileNotFoundError ("missing")
KeyEnter ==
    /\ pc = "loop"
    /\ key' = "ENTER"
    /\ IF InvalidSelection(SW)
       THEN /\ request' = None
            /\ outcome' = "none"
            /\ \E height \in Heights : Set(Render(apply_mode(SW, "none"), height))
            /\ UNCHANGED <<pc, screen>>
       ELSE /\ request' = Some(cmd_args(SW))
            /\ \E result \in {"ok", "failed", "missing"} :
                  /\ outcome' = result
                  /\ IF Propagates(result)
                     THEN /\ Set(apply_mode(SW, result))
                          /\ screen' = "Error"
                          /\ pc' = "wait_key"
                     ELSE /\ \E height \in Heights :
                                Set(Render(apply_mode(SW, result), height))
                          /\ UNCHANGED <<pc, screen>>
    /\ UNCHANGED <<env, harness, exit_code>>

Navigation ==
    \/ NotATerminal
    \/ ListFails
    \/ NoDisplays
    \/ EnterLoop
    \/ WaitKey
    \/ KeyLeft
    \/ KeyRight
    \/ KeyUp
    \/ KeyDown
    \/ KeyPageUp
    \/ KeyPageDown
    \/ KeyOther
    \/ KeyQuit

Next == Navigation \/ KeyEnter

Spec == Init /\ [][Next]_vars

\* the same program when the user never presses Enter
NavNext == Navigation

SpecNav == InitNav /\ [][NavNext]_vars

(***************************************************************************)
(* Viewport on its own: constructed with any height, then resized (the     *)
(* assignment to max_height of a render pass) and updated with any list    *)
(* length and index, in any order.                                         *)
(***************************************************************************)
process == <<pc, env, displays, current_display_index, current_mode_indices,
             status_message, status_timeout, display_viewport, mode_viewports,
             key, request, outcome, screen, exit_code>>

InitViewport ==
    /\ pc = "viewport"
    /\ tty = TRUE
    /\ list_outcome = "ok"
    /\ report = ReportNone
    /\ displays = NewSwitcher.displays
    /\ current_display_index = NewSwitcher.current_display_index
    /\ current_mode_indices = NewSwitcher.current_mode_indices
    /\ status_message = NewSwitcher.status_message
    /\ status_timeout = NewSwitcher.status_timeout
    /\ display_viewport = NewSwitcher.display_viewport
    /\ mode_viewports = NewSwitcher.mode_viewports
    /\ key = ""
    /\ request = None
    /\ outcome = "none"
    /\ screen = ""
    /\ exit_code = None
    /\ \E max_height \in 0..MaxViewHeight : vp = Some(Viewport(max_height))
    /\ vp_call = None
    /\ vp_first = None

\* viewport.max_height = height, as a render pass does before it updates
VpResize ==
    /\ pc = "viewport"
    /\ \E max_height \in 1..MaxViewHeight :
          vp' = Some([vp[1] EXCEPT !.max_height = max_height])
    /\ vp_call' = None
    /\ vp_first' = None
    /\ UNCHANGED process

\* viewport.update(total_items, current_index)
VpUpdate ==
    /\ pc = "viewport"
    /\ \E total_items \in 0..MaxItems, current_index \in -1..MaxItems :
          /\ vp' = Some(ViewportUpdate(vp[1], total_items, current_index))
          /\ vp_call' = Some(<<total_items, current_index>>)
          /\ vp_first' = IF vp_call = Some(<<total_items, current_index>>) THEN vp ELSE None
    /\ UNCHANGED process

ViewportNext == VpResize \/ VpUpdate

SpecViewport == InitViewport /\ [][ViewportNext]_vars

(***************************************************************************)
(* Properties.  In an action formula the unprimed variables are the state  *)
(* at the getch() that returned the key and the primed ones the state at   *)
(* the next getch() (or at the end of the loop).                           *)
(***************************************************************************)
\* the selected display, its mode list length, its mode cursor and the mode
\* viewport of the last render pass
Target == displays[current_display_index + 1]
TargetLen == Len(Target.modes)
Cursor == current_mode_indices[Target.persistent_id]
Highlighted == Target.modes[Cursor + 1]
TargetViewport == mode_viewports[Target.persistent_id][1]
Commit == pc = "loop" /\ key' = "ENTER"

\* C1: a commit whose external-tool invocation fails leaves every Display
\* as it was; the active mode is not written before the tool has succeeded.
C1_FailedCommitKeepsDisplays ==
    [][(Commit /\ outcome' \in {"failed", "missing"}) => displays' = displays]_vars

C1_Witness ==
    /\ key = "ENTER" /\ outcome = "failed" /\ pc = "loop"
    /\ Highlighted.mode_num # Target.current_mode
    /\ request[1][current_display_index + 1].mode = Highlighted.mode_num

\* C2: a successful commit gives the Display at current_display_index the
\* ordinal, resolution and refresh rate of the highlighted Mode and changes
\* no field of a Display at another position.
C2_SuccessUpdatesOnlyTarget ==
    [][(Commit /\ outcome' = "ok") =>
         /\ Len(displays') = Len(displays)
         /\ displays'[current_display_index + 1] =
               [Target EXCEPT !.current_mode = Highlighted.mode_num,
                              !.current_resolution = Highlighted.resolution,
                              !.current_hertz = Highlighted.hertz]
         /\ \A j \in 1..Len(displays) :
               j # current_display_index + 1 => displays'[j] = displays[j]]_vars

C2_Witness ==
    /\ key = "ENTER" /\ outcome = "ok" /\ pc = "loop"
    /\ Len(displays) >= 2
    /\ Target.current_mode = Highlighted.mode_num
    /\ Target.current_mode # Parsed(report).displays[current_display_index + 1].current_mode

\* C3: a commit with an in-range mode cursor hands the tool one request with
\* one instruction per Display in list order: the highlighted Mode's ordinal
\* for the Display at current_display_index, its own active ordinal for a
\* Display at any other position, each with that Display's persistent id,
\* origin and degree 0.
C3_RequestPerDisplay ==
    [][(Commit /\ Cursor < TargetLen) =>
         /\ Len(request') = 1
         /\ Len(request'[1]) = Len(displays)
         /\ \A j \in 1..Len(displays) :
               request'[1][j] =
                   [id |-> displays[j].persistent_id,
                    mode |-> IF j = current_display_index + 1
                             THEN Highlighted.mode_num
                             ELSE displays[j].current_mode,
                    origin |-> displays[j].origin,
                    degree |-> 0]]_vars

\* C4: a commit with the mode cursor out of range (as with no modes at all)
\* invokes no tool, changes no Display and leaves an error status message
\* with a positive timeout.
C4_InvalidSelectionReported ==
    [][(Commit /\ Cursor >= TargetLen) =>
         /\ request' = None
         /\ outcome' = "none"
         /\ displays' = displays
         /\ status_message' = "Error: Invalid mode"
         /\ status_timeout' > 0
         /\ pc' = "loop"]_vars

C4_Witness ==
    /\ key = "ENTER" /\ pc = "loop" /\ request = None
    /\ TargetLen > 0 /\ Cursor >= TargetLen
    /\ status_message = "Error: Invalid mode"

\* C5: in the loop an error of a handler (a failure of the tool during a
\* commit included) becomes a status message and the loop goes on; only a
\* quit key ends the loop.
C5_LoopEndsOnlyOnQuit ==
    [][pc = "loop" =>
         /\ (pc' # "loop" => key' = "q")
         /\ (key' = "ENTER" /\ outcome' \in {"failed", "missing"}
                => pc' = "loop" /\ status_message' # "")]_vars

\* C6: when the tool is missing at startup or the report has no display, the
\* error is shown and the process ends with a non-zero status.
StartupFailed ==
    tty /\ (list_outcome = "missing" \/ (list_outcome = "ok" /\ displays = <<>>))

C6_StartupFailureExitsNonZero ==
    (pc = "exited" /\ StartupFailed) =>
        (screen # "" /\ exit_code # None /\ exit_code[1] # 0)

\* C7: the loop runs only after the list invocation succeeded and parsing
\* produced at least one Display.
C7_LoopNeedsDisplays ==
    (pc = "loop" \/ key # "") => (tty /\ list_outcome = "ok" /\ Len(displays) >= 1)

C7_Witness ==
    pc = "loop" /\ key = "" /\ display_viewport # None /\ Len(displays) >= 1

\* C8: with a non-empty Mode list of length L, previous-mode moves the mode
\* cursor from 0 to L-1 and otherwise down by one, next-mode from L-1 to 0 and
\* otherwise up by one.
C8_SingleStepWraps ==
    [][(pc = "loop" /\ TargetLen > 0) =>
         /\ (key' = "KEY_UP" =>
                Cursor' = IF Cursor = 0 THEN TargetLen - 1 ELSE Cursor - 1)
         /\ (key' = "KEY_DOWN" =>
                Cursor' = IF Cursor = TargetLen - 1 THEN 0 ELSE Cursor + 1)]_vars

\* previous-mode at 0 in the list of LongLen modes
C8_Witness ==
    /\ pc = "loop" /\ key = "KEY_UP"
    /\ Len(displays) = 1 /\ TargetLen = LongLen /\ Cursor = LongLen - 1

\* C9: with a non-empty Mode list, page-up moves the mode cursor to
\* max(0, index - J) and page-down to min(last, index + J), where J is
\* max(5, mode viewport height div 2); neither wraps.
Jump == IF TargetViewport.max_height \div 2 > 5 THEN TargetViewport.max_height \div 2 ELSE 5

C9_PageClamps ==
    [][(pc = "loop" /\ TargetLen > 0) =>
         /\ (key' = "KEY_PPAGE" =>
                Cursor' = IF Cursor - Jump < 0 THEN 0 ELSE Cursor - Jump)
         /\ (key' = "KEY_NPAGE" =>
                Cursor' = IF Cursor + Jump > TargetLen - 1 THEN TargetLen - 1
                          ELSE Cursor + Jump)]_vars

\* a page-down in the long list that ended short of the last index
C9_Witness ==
    /\ pc = "loop" /\ key = "KEY_NPAGE"
    /\ TargetLen = LongLen /\ Cursor >= 5 /\ Cursor < LongLen - 1

\* C10: with N >= 2 displays previous-display and next-display move the
\* display cursor by one modulo N; with one display it stays at 0.
C10_DisplayCursorCycles ==
    [][pc = "loop" =>
         LET n == Len(displays) IN
         /\ (key' = "KEY_LEFT" =>
                current_display_index' =
                    IF n >= 2 THEN (current_display_index + n - 1) % n ELSE 0)
         /\ (key' = "KEY_RIGHT" =>
                current_display_index' =
                    IF n >= 2 THEN (current_display_index + 1) % n ELSE 0)]_vars

\* previous-display at index 0 of 3
C10_Witness ==
    pc = "loop" /\ key = "KEY_LEFT" /\ Len(displays) = 3 /\ current_display_index = 2

\* C11: with a Mode list of length 0 or 1 every mode-navigation key leaves
\* the selected Display's mode cursor at 0 and the loop goes on.
ModeKeys == {"KEY_UP", "KEY_DOWN", "KEY_PPAGE", "KEY_NPAGE"}

C11_ShortListCursorStaysZero ==
    [][(pc = "loop" /\ TargetLen <= 1 /\ key' \in ModeKeys) =>
         (Cursor' = 0 /\ pc' = "loop")]_vars

\* C12: the mode cursors of the Displays are independent: previous-display
\* and next-display change no mode cursor, and a mode-navigation key changes
\* the mode cursor of no Display at a list position other than
\* current_display_index.
CursorOf(j) == current_mode_indices[displays[j].persistent_id]

C12_CursorsIndependent ==
    [][pc = "loop" =>
         /\ (key' \in {"KEY_LEFT", "KEY_RIGHT"} =>
                \A j \in 1..Len(displays) : CursorOf(j)' = CursorOf(j))
         /\ (key' \in ModeKeys =>
                \A j \in 1..Len(displays) :
                    j # current_display_index + 1 => CursorOf(j)' = CursorOf(j))]_vars

\* C13: after update(total_items, current_index), whatever max_height (at
\* least 1, possibly changed since the update before), total_items and
\* current_index: the offset is not negative, the window does not pass the
\* end of a list at least as long as the viewport, and the offset is 0 for a
\* list that fits.
C13_OffsetInRange ==
    (pc = "viewport" /\ vp_call # None) =>
        LET total_items == vp_call[1][1] IN
        /\ vp[1].max_height >= 1
        /\ vp[1].offset >= 0
        /\ (total_items >= vp[1].max_height =>
               vp[1].offset + vp[1].max_height <= total_items)
        /\ (total_items <= vp[1].max_height => vp[1].offset = 0)

\* an update with the index at the end of a list longer than the viewport
C13_Witness ==
    /\ pc = "viewport" /\ vp_call # None
    /\ vp_call[1][1] > vp[1].max_height
    /\ vp_call[1][2] >= vp_call[1][1]
    /\ vp[1].offset = vp_call[1][1] - vp[1].max_height

\* C14: a second update with the arguments of the one before and the same
\* max_height leaves offset, current_index and max_height as the first
\* update left them.
C14_UpdateIdempotent ==
    (pc = "viewport" /\ vp_first # None) => vp = vp_first

C14_Witness ==
    /\ pc = "viewport" /\ vp_first # None
    /\ vp[1].offset > 0 /\ vp[1].current_index = vp_call[1][2]

\* C15: in every state each Display has at most one Mode whose ordinal is
\* the Display's active-mode ordinal.
C15_OneActiveMode ==
    \A j \in 1..Len(displays) :
        Cardinality({i \in 1..Len(displays[j].modes) :
                        displays[j].modes[i].mode_num = displays[j].current_mode}) <= 1

\* C16: parsing a report with N qualifying blocks gives N Displays in block
\* order, each with its Modes ordered high-density first, then by descending
\* width, then by descending refresh rate, whatever the order of the lines;
\* the lines 1920x1080@60, 2560x1440@60, 1280x720@60 HiDPI come out as
\* 1280x720@60 HiDPI, 2560x1440@60, 1920x1080@60.
QualifyingBlocks == SelectSeq(report, LAMBDA b : b.qualifies)

NotAfter(a, b) ==
    \/ a.scaling /\ ~b.scaling
    \/ /\ a.scaling = b.scaling
       /\ \/ a.resolution[1] > b.resolution[1]
          \/ a.resolution[1] = b.resolution[1] /\ a.hertz >= b.hertz

C16_ParsedInOrderAndSorted ==
    (pc \in {"loop", "wait_key", "exited"} /\ tty /\ list_outcome = "ok") =>
        /\ Len(displays) = Len(QualifyingBlocks)
        /\ \A j \in 1..Len(displays) :
              /\ displays[j].persistent_id = QualifyingBlocks[j].persistent_id
              /\ displays[j].contextual_id = QualifyingBlocks[j].contextual_id
              /\ displays[j].origin = QualifyingBlocks[j].origin
              /\ \A i, k \in 1..Len(displays[j].modes) :
                    i < k => NotAfter(displays[j].modes[i], displays[j].modes[k])
        /\ (report = ReportTwo =>
              [i \in 1..3 |-> <<displays[1].modes[i].resolution, displays[1].modes[i].scaling>>]
                  = << <<<<1280, 720>>, TRUE>>, <<<<2560, 1440>>, FALSE>>,
                       <<<<1920, 1080>>, FALSE>> >>)

C16_Witness ==
    /\ pc = "loop" /\ report = ReportTwo
    /\ Len(displays) = 2 /\ Len(displays[1].modes) = 3
    /\ displays[1].modes[1].scaling /\ displays[1].modes[1].resolution = <<1280, 720>>

\* C17: once parsed, the number and order of the Displays and every
\* Display's persistent id, origin and Mode sequence never change; only
\* current_mode, current_resolution and current_hertz do, and only in a commit
\* whose tool invocation succeeded.
C17_OnlyAppliedFieldsChange ==
    [][(pc = "loop" \/ pc = "wait_key") =>
         /\ Len(displays') = Len(displays)
         /\ \A j \in 1..Len(displays) :
               displays'[j] =
                   [displays[j] EXCEPT
                       !.current_mode = displays'[j].current_mode,
                       !.current_resolution = displays'[j].current_resolution,
                       !.current_hertz = displays'[j].current_hertz]
         /\ (displays' # displays => (pc = "loop" /\ key' = "ENTER" /\ outcome' = "ok"))]_vars

\* a successful commit on the second display, which is not at the origin
C17_Witness ==
    /\ pc = "loop" /\ key = "ENTER" /\ outcome = "ok"
    /\ current_display_index = 1
    /\ Target.origin # <<0, 0>>
    /\ displays # Parsed(report).displays

\* C18: the status message of a commit lives for a fixed number of render
\* passes: 30 after a success or an invalid selection, 50 after a failure of
\* the tool; each render pass that shows it lowers the timeout by one, the
\* pass that reaches 0 clears it, and it stays cleared until the next commit.
\* (The first render pass is part of the commit's step.)
C18_StatusLifetime ==
    [][(pc = "loop" /\ pc' = "loop") =>
         /\ (key' = "ENTER" =>
                /\ status_message' # ""
                /\ status_timeout' = (IF outcome' = "failed" THEN 50 ELSE 30) - 1)
         /\ (key' # "ENTER" /\ status_timeout > 0 =>
                /\ status_message # ""
                /\ status_timeout' = status_timeout - 1
                /\ status_message' = IF status_timeout' = 0 THEN "" ELSE status_message)
         /\ (key' # "ENTER" /\ status_timeout = 0 =>
                /\ status_message = ""
                /\ status_message' = ""
                /\ status_timeout' = 0)]_vars

\* the 49th render pass after a failure of the tool
C18_Witness ==
    pc = "loop" /\ status_message = "Error: Failed" /\ status_timeout = 1

\* C19: a commit changes no cursor, whatever its outcome.
C19_CommitKeepsCursors ==
    [][Commit =>
         /\ current_display_index' = current_display_index
         /\ current_mode_indices' = current_mode_indices]_vars

C19_Witness ==
    /\ pc = "loop" /\ key = "ENTER" /\ outcome = "failed"
    /\ current_display_index > 0 /\ Cursor > 0

\* C20: a key that is not recognised changes no cursor and no Display,
\* invokes no tool, and the loop goes on.
C20_UnknownKeyIsNoOp ==
    [][(pc = "loop" /\ key' = "other") =>
         /\ current_display_index' = current_display_index
         /\ current_mode_indices' = current_mode_indices
         /\ displays' = displays
         /\ request' = None
         /\ outcome' = "none"
         /\ pc' = "loop"]_vars

C20_Witness ==
    /\ pc = "loop" /\ key = "other" /\ request = None
    /\ current_display_index > 0 /\ Cursor > 0

\* C21: in the loop, after any sequence of navigation and commit events, the
\* display cursor is a position of the display list and every Display's mode
\* cursor is a position of its Mode list (0 when the list is empty), so that
\* a commit on a Display with at least one mode is never an InvalidSelection.
C21_CursorsInRange ==
    pc = "loop" =>
        /\ 0 <= current_display_index /\ current_display_index < Len(displays)
        /\ \A j \in 1..Len(displays) :
              IF displays[j].modes = <<>> THEN CursorOf(j) = 0
              ELSE 0 <= CursorOf(j) /\ CursorOf(j) < Len(displays[j].modes)
        /\ (TargetLen > 0 => ~InvalidSelection(SW))

\* C22: at the end of every render pass the highlighted items are inside
\* the visible windows: start <= current_display_index < end for the display
\* list and, when the selected Display's Mode list is not empty,
\* start <= mode cursor < end for the mode list, where (start, end) is
\* get_visible_range of the viewport the pass has just updated.
DisplayWindow == get_visible_range(display_viewport[1], Len(displays))
ModeWindow == get_visible_range(TargetViewport, TargetLen)

C22_HighlightVisible ==
    pc = "loop" =>
        /\ DisplayWindow[1] <= current_display_index
        /\ current_display_index < DisplayWindow[2]
        /\ (TargetLen > 0 => (ModeWindow[1] <= Cursor /\ Cursor < ModeWindow[2]))

====
